---- MODULE Spec2Model ----
(***************************************************************************)
(* Model of the hyperviz-studio data store (useDataStore) and of the       *)
(* numeric helpers it calls: the determinant, the Gauss-Jordan inverse and *)
(* the ordinary-least-squares fit of runRegressionImmediate.               *)
(*                                                                         *)
(* Numbers.  A JavaScript number is modelled as a pair <<n, d>>:           *)
(*   d > 0   the rational n/d in lowest terms (arithmetic is exact),       *)
(*   d = 0   an IEEE special: <<1,0>> is +Infinity, <<-1,0>> -Infinity and *)
(*           <<0,0>> is NaN,                                               *)
(*   d = -1  the JavaScript value null (a missing cell).                   *)
(*   d = -2  the JavaScript value undefined (a key the row lacks).         *)
(* Negative zero is identified with zero.                                  *)
(***************************************************************************)
EXTENDS Integers, Sequences, FiniteSets, TLC

\* ------------------------------------------------------------------------
\* Bounds of the model
\* ------------------------------------------------------------------------
MaxRows == 5
MaxCols == 4
MaxTime == 1450
MaxTimers == 2

\* ------------------------------------------------------------------------
\* IEEE-style arithmetic on <<n, d>>
\* ------------------------------------------------------------------------
Abs(i) == IF i < 0 THEN -i ELSE i

Sign(i) == IF i > 0 THEN 1 ELSE IF i < 0 THEN -1 ELSE 0

\* the sequence f with every element evaluated
Tup(f) == f \o <<>>

RECURSIVE GCD(_, _)
GCD(a, b) == IF b = 0 THEN a ELSE GCD(b, a % b)

NaN == <<0, 0>>
PosInf == <<1, 0>>
NegInf == <<-1, 0>>
Null == <<0, -1>>

Norm(n, d) ==
  IF d = 0 THEN <<Sign(n), 0>>
  ELSE LET g == GCD(Abs(n), Abs(d))
           s == IF d < 0 THEN -1 ELSE 1
       IN <<s * (n \div g), s * (d \div g)>>

Q(i) == <<i, 1>>
Zero == <<0, 1>>
One == <<1, 1>>

IsNaN(a) == a[2] = 0 /\ a[1] = 0
IsFinite(a) == a[2] > 0

Neg(a) == <<-a[1], a[2]>>

Add(a, b) ==
  IF a[2] = 0 \/ b[2] = 0
  THEN IF IsNaN(a) \/ IsNaN(b) THEN NaN
       ELSE IF a[2] = 0 /\ b[2] = 0
            THEN (IF a[1] = b[1] THEN a ELSE NaN)
            ELSE IF a[2] = 0 THEN a ELSE b
  ELSE LET g == GCD(a[2], b[2])
       IN Norm(a[1] * (b[2] \div g) + b[1] * (a[2] \div g), (a[2] \div g) * b[2])

Sub(a, b) == Add(a, Neg(b))

Mul(a, b) ==
  IF a[2] = 0 \/ b[2] = 0
  THEN <<Sign(a[1]) * Sign(b[1]), 0>>
  ELSE LET g1 == GCD(Abs(a[1]), b[2])
           g2 == GCD(Abs(b[1]), a[2])
           h1 == IF g1 = 0 THEN 1 ELSE g1
           h2 == IF g2 = 0 THEN 1 ELSE g2
       IN Norm((a[1] \div h1) * (b[1] \div h2), (a[2] \div h2) * (b[2] \div h1))

Recip(a) ==
  IF a[2] = 0 THEN (IF a[1] = 0 THEN NaN ELSE Zero)
  ELSE IF a[1] > 0 THEN <<a[2], a[1]>>
  ELSE IF a[1] < 0 THEN <<-a[2], -a[1]>>
  ELSE PosInf

Div(a, b) == Mul(a, Recip(b))

\* a < b as JavaScript evaluates it: false as soon as one side is NaN
Lt(a, b) ==
  IF IsNaN(a) \/ IsNaN(b) THEN FALSE
  ELSE IF a[2] = 0 \/ b[2] = 0
       THEN (IF a[2] = 0 /\ b[2] = 0 THEN a[1] < b[1]
             ELSE IF a[2] = 0 THEN a[1] < 0 ELSE b[1] > 0)
       ELSE Sub(a, b)[1] < 0

Le(a, b) == Lt(a, b) \/ (~IsNaN(a) /\ a = b)

MathAbs(a) == <<Abs(a[1]), a[2]>>

\* Math.abs(x) < 1e-10, evaluated without forming 10^10
BelowTolerance(a) ==
  IF a[2] = 0 THEN FALSE
  ELSE Abs(a[1]) <= ((a[2] - 1) \div 100000) \div 100000

MathMin(a, b) == IF IsNaN(a) \/ IsNaN(b) THEN NaN ELSE IF Lt(b, a) THEN b ELSE a

MathMax(a, b) == IF IsNaN(a) \/ IsNaN(b) THEN NaN ELSE IF Lt(a, b) THEN b ELSE a

MathSign(a) == IF IsNaN(a) THEN NaN ELSE Q(Sign(a[1]))

RECURSIVE ISqrtIter(_, _)
ISqrtIter(m, x) ==
  LET y == (x + (m \div x)) \div 2
  IN IF y >= x THEN x ELSE ISqrtIter(m, y)

\* floor of the square root of a natural number
ISqrt(m) == IF m = 0 THEN 0 ELSE ISqrtIter(m, m)

IsSquare(m) == ISqrt(m) * ISqrt(m) = m

\* Math.sqrt: NaN below zero, exact on squares of rationals, otherwise
\* rounded down to one decimal (to a whole number when the numerator is
\* too large for that)
MathSqrt(a) ==
  IF IsNaN(a) \/ a[1] < 0 THEN NaN
  ELSE IF a[2] = 0 THEN PosInf
  ELSE IF IsSquare(a[1]) /\ IsSquare(a[2]) THEN <<ISqrt(a[1]), ISqrt(a[2])>>
  ELSE IF a[1] <= 2147483647 \div 100
       THEN Norm(ISqrt((a[1] * 100) \div a[2]), 10)
       ELSE Q(ISqrt(a[1] \div a[2]))

RECURSIVE SumSeq(_, _)
SumSeq(s, acc) == IF s = <<>> THEN acc ELSE SumSeq(Tail(s), Add(acc, Head(s)))

\* values.reduce((sum, v) => sum + v, 0)
Sum(s) == SumSeq(s, Zero)

\* ------------------------------------------------------------------------
\* Matrices: sequences of rows, each a sequence of numbers
\* ------------------------------------------------------------------------
Transpose(m) ==
  IF m = <<>> THEN <<>>
  ELSE Tup([j \in 1..Len(m[1]) |-> Tup([i \in 1..Len(m) |-> m[i][j]])])

\* Matrix.mmul of ml-matrix: the standard product, summed left to right
MMul(a, b) ==
  Tup([i \in 1..Len(a) |->
     Tup([j \in 1..Len(b[1]) |->
        Sum(Tup([k \in 1..Len(b) |-> Mul(a[i][k], b[k][j])]))])])

SwapRows(m, i, k) ==
  Tup([r \in 1..Len(m) |-> IF r = i THEN m[k] ELSE IF r = k THEN m[i] ELSE m[r]])

\* the pivot search shared by both eliminations: the first row, from i down,
\* whose entry in column i has the largest magnitude
RECURSIVE FindPivot(_, _, _, _)
FindPivot(m, i, k, maxRow) ==
  IF k > Len(m) THEN maxRow
  ELSE FindPivot(m, i, k + 1,
                 IF Lt(MathAbs(m[maxRow][i]), MathAbs(m[k][i])) THEN k ELSE maxRow)

\* row k -= (row k [i] / row i [i]) * row i, on columns i..n
DetEliminateRow(rowK, rowI, i, factor) ==
  Tup([j \in 1..Len(rowK) |->
     IF j < i THEN rowK[j] ELSE Sub(rowK[j], Mul(factor, rowI[j]))])

\* the rows below i, eliminated
DetEliminate(temp, i) ==
  Tup([k \in 1..Len(temp) |->
     IF k <= i THEN temp[k]
     ELSE DetEliminateRow(temp[k], temp[i], i, Div(temp[k][i], temp[i][i]))])

\* a pivot step that leaves the rows where they are
PivotRowsUnswapped(temp, i, maxRow) == temp

\* temp with the pivot row of column i brought to row i
PivotRows(temp, i, maxRow) == IF maxRow # i THEN SwapRows(temp, i, maxRow) ELSE temp

\* the elimination loop of calculateDeterminant, from row i on
RECURSIVE DetLoop(_, _, _)
DetStep(temp, det, i, maxRow, swapped) ==
  IF BelowTolerance(swapped[i][i])
  THEN [det |-> Zero, temp |-> swapped]
  ELSE DetLoop(DetEliminate(swapped, i),
               Mul(IF maxRow # i THEN Mul(det, Q(-1)) ELSE det, swapped[i][i]),
               i + 1)

DetPivot(temp, det, i, maxRow) ==
  DetStep(temp, det, i, maxRow, PivotRows(temp, i, maxRow))

DetLoop(temp, det, i) ==
  IF i > Len(temp) THEN [det |-> det, temp |-> temp]
  ELSE DetPivot(temp, det, i, FindPivot(temp, i, i + 1, i))

\* matrix[0][0] * matrix[1][1] - matrix[0][1] * matrix[1][0]
Det2(m) == Sub(Mul(m[1][1], m[2][2]), Mul(m[1][2], m[2][1]))

\* the closed form for 3x3
Det3(m) ==
  Add(Sub(Mul(m[1][1], Sub(Mul(m[2][2], m[3][3]), Mul(m[2][3], m[3][2]))),
          Mul(m[1][2], Sub(Mul(m[2][1], m[3][3]), Mul(m[2][3], m[3][1])))),
      Mul(m[1][3], Sub(Mul(m[2][1], m[3][2]), Mul(m[2][2], m[3][1]))))

\* what an elimination leaves when temp is the caller's array itself
AliasedOutcome(r) == [ret |-> r.det, arg |-> r.temp]

\* an elimination that works on the rows of the caller's array
calculateDeterminantAliased(matrix) ==
  IF Len(matrix) = 1 THEN [ret |-> matrix[1][1], arg |-> matrix]
  ELSE IF Len(matrix) = 2 THEN [ret |-> Det2(matrix), arg |-> matrix]
  ELSE IF Len(matrix) = 3 THEN [ret |-> Det3(matrix), arg |-> matrix]
  ELSE AliasedOutcome(DetLoop(matrix, One, 1))

\* calculateDeterminant(matrix).  ret is the value returned, arg the
\* contents of the caller's array when the call returns (the elimination
\* works on temp, a copy of every row)
calculateDeterminant(matrix) ==
  IF Len(matrix) = 1 THEN [ret |-> matrix[1][1], arg |-> matrix]
  ELSE IF Len(matrix) = 2 THEN [ret |-> Det2(matrix), arg |-> matrix]
  ELSE IF Len(matrix) = 3 THEN [ret |-> Det3(matrix), arg |-> matrix]
  ELSE [ret |-> DetLoop(matrix, One, 1).det, arg |-> matrix]

Identity(n) == Tup([i \in 1..n |-> Tup([j \in 1..n |-> IF i = j THEN One ELSE Zero])])

\* row k -= row k [i] * row i
JordanEliminateRow(rowK, rowI, factor) ==
  Tup([j \in 1..Len(rowK) |-> Sub(rowK[j], Mul(factor, rowI[j]))])

JordanRows(aug, i, rowI) ==
  Tup([k \in 1..Len(aug) |->
     IF k = i THEN rowI ELSE JordanEliminateRow(aug[k], rowI, aug[k][i])])

\* row i /= pivot, then every other row k -= row k [i] * row i
JordanEliminate(aug, i) ==
  JordanRows(aug, i, Tup([j \in 1..Len(aug[i]) |-> Div(aug[i][j], aug[i][i])]))

\* the Gauss-Jordan loop of calculateMatrixInverse, from row i on
RECURSIVE JordanLoop(_, _)
\* an elimination step that divides by the pivot whatever its size
JordanStepUnchecked(swapped, i) == JordanLoop(JordanEliminate(swapped, i), i + 1)

JordanStep(swapped, i) ==
  IF BelowTolerance(swapped[i][i])
  THEN [thrown |-> TRUE, augmented |-> swapped]
  ELSE JordanLoop(JordanEliminate(swapped, i), i + 1)

JordanLoop(aug, i) ==
  IF i > Len(aug) THEN [thrown |-> FALSE, augmented |-> aug]
  ELSE JordanStep(PivotRows(aug, i, FindPivot(aug, i, i + 1, i)), i)

\* augmented.map(row => row.slice(n))
RightHalf(augmented, n) ==
  Tup([i \in 1..n |-> Tup([j \in 1..n |-> augmented[i][j + n]])])

\* [A|I]
Augment(matrix, identity) ==
  Tup([i \in 1..Len(matrix) |-> matrix[i] \o identity[i]])

\* what calculateMatrixInverse makes of the eliminated augmented matrix
InverseOutcome(matrix, r) ==
  [thrown |-> r.thrown,
   ret |-> IF r.thrown THEN <<>> ELSE RightHalf(r.augmented, Len(matrix)),
   arg |-> matrix]

\* calculateMatrixInverse(matrix).  thrown: 'Matrix is singular and cannot be
\* inverted'; ret the inverse; arg the caller's array when the call returns
\* (augmented is built from fresh rows)
calculateMatrixInverse(matrix) ==
  InverseOutcome(matrix, JordanLoop(Augment(matrix, Identity(Len(matrix))), 1))

\* ------------------------------------------------------------------------
\* Student-t p-value
\* ------------------------------------------------------------------------
Half == <<1, 2>>
Two == <<2, 1>>

\* Math.PI, as the rational 355/113
MathPI == <<355, 113>>

\* Math.exp(-u) for u >= 0, as the decreasing rational 1 / (1 + u + u^2/2)
ExpNeg(u) ==
  IF IsNaN(u) THEN NaN
  ELSE IF u[2] = 0 THEN Zero
  ELSE Recip(Add(Add(One, u), Mul(Half, Mul(u, u))))

\* the small-df branch of tDistributionCDF, x being t / sqrt(df).  With
\* a = b = 0.5 the Stirling terms logGamma(a) + logGamma(b) - logGamma(a + b)
\* add up to log(2*PI)/2, so
\* beta = exp(log(2*PI)/2 - log(x)/2 - log(1 - x)/2) = sqrt(2*PI / (x*(1 - x))):
\* +Infinity at x = 0 and x = 1, NaN for x > 1 and x < 0
BetaTerm(x) == MathSqrt(Div(Mul(Two, MathPI), Mul(x, Sub(One, x))))

IncompleteBeta(x) ==
  IF Lt(MathAbs(x), One)
  THEN Add(Half, Div(Mul(Mul(MathSign(x), BetaTerm(x)), MathAbs(x)), Two))
  ELSE Half

tDistributionCDF(t, df) ==
  IF df <= 0 THEN Half
  ELSE IF df > 30
  THEN Mul(Half, Add(One, Mul(MathSign(t),
         MathSqrt(Sub(One, ExpNeg(Div(Mul(Two, Mul(t, t)), MathPI)))))))
  ELSE MathMax(Zero, MathMin(One, IncompleteBeta(Div(t, MathSqrt(Q(df))))))

\* calculatePValue(tValue, degreesOfFreedom): the two-tailed p-value
calculatePValue(tValue, degreesOfFreedom) ==
  Mul(Two, Sub(One, tDistributionCDF(MathAbs(tValue), degreesOfFreedom)))

\* ------------------------------------------------------------------------
\* Rows and the fit
\* ------------------------------------------------------------------------
\* A DataPoint is the sequence of its <<key, value>> entries in insertion
\* order; reading a key it does not have gives undefined
Undefined == <<0, -2>>

Keys(row) == Tup([i \in 1..Len(row) |-> row[i][1]])

Get(row, col) ==
  IF \E i \in 1..Len(row) : row[i][1] = col
  THEN row[CHOOSE i \in 1..Len(row) : row[i][1] = col][2]
  ELSE Undefined

Range(s) == {s[i] : i \in 1..Len(s)}

\* error messages of the store
NoError == "null"
ErrInvalidSelection == "set data and variables first"
ErrNotEnoughValid == "not enough valid data"
ErrMulticollinearity == "matrix error: multicollinearity detected"
ErrSingular == "matrix error: Matrix is singular and cannot be inverted"
ErrFewObservations == "matrix error: fewer observations than variables"

NoResult == <<>>

\* row[col] !== undefined && row[col] !== null && !isNaN(row[col])
IsValidCell(v) == v # Undefined /\ v # Null /\ ~IsNaN(v)

ValidData(parsedData, dependentVariable, independentVariables) ==
  SelectSeq(parsedData,
            LAMBDA row : \A col \in {dependentVariable} \cup Range(independentVariables) :
                            IsValidCell(Get(row, col)))

\* the slope and intercept linearRegression of simple-statistics computes
\* from the sums
Slope(n, sumX, sumY, sumXX, sumXY) ==
  Div(Sub(Mul(Q(n), sumXY), Mul(sumX, sumY)),
      Sub(Mul(Q(n), sumXX), Mul(sumX, sumX)))

Line(n, sumX, sumY, m) ==
  [m |-> m, b |-> Sub(Div(sumY, Q(n)), Div(Mul(m, sumX), Q(n)))]

LineOfSums(n, sumX, sumY, sumXX, sumXY) ==
  Line(n, sumX, sumY, Slope(n, sumX, sumY, sumXX, sumXY))

\* linearRegression of simple-statistics on the points (xs[i], ys[i])
linearRegression(xs, ys) ==
  IF Len(xs) = 1 THEN [m |-> Zero, b |-> ys[1]]
  ELSE LineOfSums(Len(xs), Sum(xs), Sum(ys),
                  Sum(Tup([i \in 1..Len(xs) |-> Mul(xs[i], xs[i])])),
                  Sum(Tup([i \in 1..Len(xs) |-> Mul(xs[i], ys[i])])))

SumSquares(s) == Sum(Tup([i \in 1..Len(s) |-> Mul(s[i], s[i])]))

Mean(y) == Div(Sum(y), Q(Len(y)))

\* sum of (val - mean)^2
SumSquaresAbout(y, mean) == SumSquares(Tup([i \in 1..Len(y) |-> Sub(y[i], mean)]))

TotalSumSquares(y) == SumSquaresAbout(y, Mean(y))

\* residuals with the sign turned: predictions[i] - actual
ResidualsReversed(y, predictions) ==
  Tup([i \in 1..Len(y) |-> Sub(predictions[i], y[i])])

\* actual - predictions[i]
Residuals(y, predictions) == Tup([i \in 1..Len(y) |-> Sub(y[i], predictions[i])])

\* 1 - residualSumSquares / totalSumSquares
RSquaredOf(residualSumSquares, totalSumSquares) ==
  Sub(One, Div(residualSumSquares, totalSumSquares))

\* 1 - ((1 - rSquared) * (n - 1)) / degreesOfFreedom
AdjustedRSquaredOf(rSquared, n, degreesOfFreedom) ==
  Sub(One, Div(Mul(Sub(One, rSquared), Q(n - 1)), Q(degreesOfFreedom)))

\* the result the single-variable branch stores
SimpleResult(y, regression, predictions, residuals, residualSumSquares, rSquared) ==
  [coefficients |-> <<regression.b, regression.m>>,
   rSquared |-> rSquared,
   adjustedRSquared |-> AdjustedRSquaredOf(rSquared, Len(y), Len(y) - 2),
   mse |-> Div(residualSumSquares, Q(Len(y) - 2)),
   residuals |-> residuals,
   standardErrors |-> <<Zero, Zero>>,
   tValues |-> <<Zero, Zero>>,
   pValues |-> <<Zero, Zero>>,
   fStatistic |-> Zero,
   predictions |-> predictions]

SimpleSums(y, regression, predictions, residuals, residualSumSquares) ==
  SimpleResult(y, regression, predictions, residuals, residualSumSquares,
               RSquaredOf(residualSumSquares, TotalSumSquares(y)))

SimpleResiduals(y, regression, predictions, residuals) ==
  SimpleSums(y, regression, predictions, residuals, SumSquares(residuals))

SimplePredictions(y, regression, predictions) ==
  SimpleResiduals(y, regression, predictions, Residuals(y, predictions))

\* xValues.map(x => line(x))
SimpleLine(xValues, y, regression) ==
  SimplePredictions(y, regression,
    Tup([i \in 1..Len(xValues) |-> Add(regression.b, Mul(regression.m, xValues[i]))]))

\* the single-variable branch of runRegressionImmediate
SimpleFit(xValues, y) ==
  [thrown |-> NoError,
   result |-> SimpleLine(xValues, y, linearRegression(xValues, y)),
   detCalls |-> <<>>, invCalls |-> <<>>]

\* (rSquared / (p - 1)) / ((1 - rSquared) / degreesOfFreedom)
FStatisticOf(rSquared, p, degreesOfFreedom) ==
  Div(Div(rSquared, Q(p - 1)), Div(Sub(One, rSquared), Q(degreesOfFreedom)))

\* the result the matrix branch stores
MatrixResult(y, coefficients, predictions, residuals, rSquared, degreesOfFreedom, mse, standardErrors, tValues) ==
  [coefficients |-> coefficients,
   rSquared |-> rSquared,
   adjustedRSquared |-> AdjustedRSquaredOf(rSquared, Len(y), degreesOfFreedom),
   mse |-> mse,
   residuals |-> residuals,
   standardErrors |-> standardErrors,
   tValues |-> tValues,
   pValues |-> Tup([i \in 1..Len(coefficients) |->
                      calculatePValue(tValues[i], degreesOfFreedom)]),
   fStatistic |-> FStatisticOf(rSquared, Len(coefficients), degreesOfFreedom),
   predictions |-> predictions]

\* coefficients[i] / se
MatrixTValues(y, coefficients, predictions, residuals, rSquared, degreesOfFreedom, mse, standardErrors) ==
  MatrixResult(y, coefficients, predictions, residuals, rSquared, degreesOfFreedom,
               mse, standardErrors,
               Tup([i \in 1..Len(coefficients) |->
                      Div(coefficients[i], standardErrors[i])]))

\* Math.sqrt(mse * XTXInverse[i][i])
MatrixStandardErrors(y, coefficients, predictions, XTXInverse, residuals, rSquared, degreesOfFreedom, mse) ==
  MatrixTValues(y, coefficients, predictions, residuals, rSquared, degreesOfFreedom,
                mse,
                Tup([i \in 1..Len(coefficients) |->
                       MathSqrt(Mul(mse, XTXInverse[i][i]))]))

\* the degrees-of-freedom check and what follows it
MatrixSums(y, coefficients, predictions, XTXInverse, calls, residuals, residualSumSquares) ==
  IF Len(y) - Len(coefficients) <= 0
  THEN [thrown |-> ErrFewObservations, result |-> NoResult,
        detCalls |-> calls.detCalls, invCalls |-> calls.invCalls]
  ELSE [thrown |-> NoError,
        result |-> MatrixStandardErrors(y, coefficients, predictions, XTXInverse,
                     residuals,
                     RSquaredOf(residualSumSquares, TotalSumSquares(y)),
                     Len(y) - Len(coefficients),
                     Div(residualSumSquares, Q(Len(y) - Len(coefficients)))),
        detCalls |-> calls.detCalls, invCalls |-> calls.invCalls]

MatrixResiduals(y, coefficients, predictions, XTXInverse, calls, residuals) ==
  MatrixSums(y, coefficients, predictions, XTXInverse, calls, residuals,
             SumSquares(residuals))

\* the statistics of the matrix branch, once the coefficients are known
MatrixStatistics(y, coefficients, predictions, XTXInverse, calls) ==
  MatrixResiduals(y, coefficients, predictions, XTXInverse, calls,
                  Residuals(y, predictions))

Column1(m) == Tup([i \in 1..Len(m) |-> m[i][1]])

\* betaMatrix = XTXInverse * XTy and the predictions XMatrix * betaMatrix
MatrixBeta(XMatrix, y, XTXInverse, calls, betaMatrix) ==
  MatrixStatistics(y, Column1(betaMatrix), Column1(MMul(XMatrix, betaMatrix)),
                   XTXInverse, calls)

\* the calls made, and the inverse or the error it threw
MatrixInverted(XMatrix, y, XTX, XTy, detCall, invCall) ==
  IF invCall.thrown
  THEN [thrown |-> ErrSingular, result |-> NoResult,
        detCalls |-> <<[arg |-> XTX, after |-> detCall.arg]>>,
        invCalls |-> <<[arg |-> XTX, after |-> invCall.arg]>>]
  ELSE MatrixBeta(XMatrix, y, invCall.ret,
                  [detCalls |-> <<[arg |-> XTX, after |-> detCall.arg]>>,
                   invCalls |-> <<[arg |-> XTX, after |-> invCall.arg]>>],
                  MMul(invCall.ret, XTy))

\* an inversion that is attempted without looking at the determinant
MatrixDeterminantUnchecked(XMatrix, y, XTX, XTy, detCall) ==
  MatrixInverted(XMatrix, y, XTX, XTy, detCall, calculateMatrixInverse(XTX))

\* the singularity check on the determinant
MatrixDeterminant(XMatrix, y, XTX, XTy, detCall) ==
  IF BelowTolerance(detCall.ret)
  THEN [thrown |-> ErrMulticollinearity, result |-> NoResult,
        detCalls |-> <<[arg |-> XTX, after |-> detCall.arg]>>,
        invCalls |-> <<>>]
  ELSE MatrixInverted(XMatrix, y, XTX, XTy, detCall, calculateMatrixInverse(XTX))

MatrixNormal(XMatrix, y, XTX, XTy) ==
  MatrixDeterminant(XMatrix, y, XTX, XTy, calculateDeterminant(XTX))

MatrixProducts(XMatrix, y, XTranspose) ==
  MatrixNormal(XMatrix, y, MMul(XTranspose, XMatrix),
               MMul(XTranspose, Tup([i \in 1..Len(y) |-> <<y[i]>>])))

MatrixDesign(XMatrix, y) == MatrixProducts(XMatrix, y, Transpose(XMatrix))

\* the matrix branch of runRegressionImmediate.  detCalls and invCalls list
\* the calls made to the two matrix helpers: the argument passed and the
\* argument as the call left it
MatrixFit(X, y) == MatrixDesign(Tup([i \in 1..Len(X) |-> <<One>> \o X[i]]), y)

\* what follows the filter: the row-count check and the two branches
FitValid(validData, dependentVariable, independentVariables) ==
  IF Len(validData) < 2
  THEN [thrown |-> ErrNotEnoughValid, result |-> NoResult,
        detCalls |-> <<>>, invCalls |-> <<>>]
  ELSE IF Len(independentVariables) = 1
  THEN SimpleFit(Tup([i \in 1..Len(validData) |->
                        Get(validData[i], independentVariables[1])]),
                 Tup([i \in 1..Len(validData) |->
                        Get(validData[i], dependentVariable)]))
  ELSE MatrixFit(Tup([i \in 1..Len(validData) |->
                        Tup([j \in 1..Len(independentVariables) |->
                               Get(validData[i], independentVariables[j])])]),
                 Tup([i \in 1..Len(validData) |->
                        Get(validData[i], dependentVariable)]))

\* the body of the try block of runRegressionImmediate
FitBody(parsedData, dependentVariable, independentVariables) ==
  FitValid(ValidData(parsedData, dependentVariable, independentVariables),
           dependentVariable, independentVariables)

\* ------------------------------------------------------------------------
\* Preprocessing
\* ------------------------------------------------------------------------
IsPresent(v) == v # Null /\ v # Undefined

\* processedData.map(row => row[header]).filter(val => val !== null && val !== undefined)
ColumnValues(data, header) ==
  SelectSeq(Tup([i \in 1..Len(data) |-> Get(data[i], header)]), IsPresent)

RECURSIVE InsertSorted(_, _)
InsertSorted(s, v) ==
  IF s = <<>> THEN <<v>>
  ELSE IF Lt(v, Head(s)) THEN <<v>> \o s
  ELSE <<Head(s)>> \o InsertSorted(Tail(s), v)

RECURSIVE SortValues(_)
SortValues(s) == IF s = <<>> THEN <<>> ELSE InsertSorted(SortValues(Tail(s)), Head(s))

SetCell(row, col, v) ==
  Tup([i \in 1..Len(row) |-> IF row[i][1] = col THEN <<col, v>> ELSE row[i]])

\* the rows whose value lies inside the bounds, or is absent
WithinBounds(processedData, header, lowerBound, upperBound) ==
  SelectSeq(processedData,
            LAMBDA row : ~(IsPresent(Get(row, header))
                           /\ (Lt(Get(row, header), lowerBound)
                               \/ Lt(upperBound, Get(row, header)))))

\* the bounds q1 - 1.5 * iqr and q3 + 1.5 * iqr
IqrBounds(processedData, header, q1, q3, iqr) ==
  WithinBounds(processedData, header,
               Sub(q1, Mul(<<3, 2>>, iqr)), Add(q3, Mul(<<3, 2>>, iqr)))

Quartiles(processedData, header, q1, q3) ==
  IqrBounds(processedData, header, q1, q3, Sub(q3, q1))

OutliersOfSorted(processedData, header, sortedValues) ==
  IF Len(sortedValues) = 0 THEN processedData
  ELSE Quartiles(processedData, header,
                 sortedValues[(Len(sortedValues) \div 4) + 1],
                 sortedValues[((3 * Len(sortedValues)) \div 4) + 1])

\* one pass of the forEach of removeOutliersFromData, for one header
RemoveOutliersOf(processedData, header) ==
  OutliersOfSorted(processedData, header,
                   SortValues(ColumnValues(processedData, header)))

RECURSIVE removeOutliersLoop(_, _, _)
removeOutliersLoop(processedData, hs, k) ==
  IF k > Len(hs) THEN processedData
  ELSE removeOutliersLoop(RemoveOutliersOf(processedData, hs[k]), hs, k + 1)

removeOutliersFromData(data, hs) == removeOutliersLoop(data, hs, 1)

\* row[header] = (row[header] - shift) / scale where the cell is present
Rescale(processedData, header, shift, scale) ==
  Tup([r \in 1..Len(processedData) |->
     IF IsPresent(Get(processedData[r], header))
     THEN SetCell(processedData[r], header,
                  Div(Sub(Get(processedData[r], header), shift), scale))
     ELSE processedData[r]])

\* sum of (val - mean)^2 / (values.length - 1)
Variance(values, mean) ==
  Div(SumSquares(Tup([i \in 1..Len(values) |-> Sub(values[i], mean)])),
      Q(Len(values) - 1))

\* if (stdDev === 0) return
StandardizeBy(processedData, header, mean, stdDev) ==
  IF stdDev = Zero THEN processedData
  ELSE Rescale(processedData, header, mean, stdDev)

StandardizeAbout(processedData, header, values, mean) ==
  StandardizeBy(processedData, header, mean, MathSqrt(Variance(values, mean)))

StandardizeValues(processedData, header, values) ==
  IF Len(values) = 0 THEN processedData
  ELSE StandardizeAbout(processedData, header, values, Mean(values))

\* one pass of the forEach of standardizeData, for one header
StandardizeOf(processedData, header) ==
  StandardizeValues(processedData, header, ColumnValues(processedData, header))

RECURSIVE standardizeLoop(_, _, _)
standardizeLoop(processedData, hs, k) ==
  IF k > Len(hs) THEN processedData
  ELSE standardizeLoop(StandardizeOf(processedData, hs[k]), hs, k + 1)

standardizeData(data, hs) == standardizeLoop(data, hs, 1)

RECURSIVE MinOf(_, _)
MinOf(s, acc) == IF s = <<>> THEN acc ELSE MinOf(Tail(s), MathMin(acc, Head(s)))

RECURSIVE MaxOf(_, _)
MaxOf(s, acc) == IF s = <<>> THEN acc ELSE MaxOf(Tail(s), MathMax(acc, Head(s)))

\* if (max === min) return
NormalizeBetween(processedData, header, min, max) ==
  IF max = min THEN processedData
  ELSE Rescale(processedData, header, min, Sub(max, min))

NormalizeValues(processedData, header, values) ==
  IF Len(values) = 0 THEN processedData
  ELSE NormalizeBetween(processedData, header,
                        MinOf(values, PosInf), MaxOf(values, NegInf))

\* one pass of the forEach of normalizeData, for one header
NormalizeOf(processedData, header) ==
  NormalizeValues(processedData, header, ColumnValues(processedData, header))

RECURSIVE normalizeLoop(_, _, _)
normalizeLoop(processedData, hs, k) ==
  IF k > Len(hs) THEN processedData
  ELSE normalizeLoop(NormalizeOf(processedData, hs[k]), hs, k + 1)

normalizeData(data, hs) == normalizeLoop(data, hs, 1)

\* ------------------------------------------------------------------------
\* Input data of the model
\* ------------------------------------------------------------------------
\* cell of row i (from 1) of the column called name
ColumnValue(name, i) ==
  CASE name = "a" -> Q(i)
    [] name = "b" -> Q(2 * i)
    [] name = "c" -> Q(1)
    [] name = "d" -> Q((i * i) % 3)
    [] name = "e" -> Q(i % 2)
    [] name = "m" -> IF i = 2 THEN Null ELSE Q((i * i) % 5)
    [] name = "x" -> IF i = 1 THEN PosInf ELSE Q(i)
    [] name = "p" -> IF i = MaxRows THEN Q(100) ELSE Zero
    [] name = "q" -> IF i \in {1, MaxRows} THEN Q(-10) ELSE IF i = 2 THEN One ELSE Zero

Dataset(cols, n) ==
  Tup([i \in 1..n |-> Tup([j \in 1..Len(cols) |-> <<cols[j], ColumnValue(cols[j], i)>>])])

\* ------------------------------------------------------------------------
\* The store
\* ------------------------------------------------------------------------
VARIABLES store, now, timers, fitInfo, batch, view

vars == <<store, now, timers, fitInfo, batch, view>>

updateDebounceMs == 300

\* the step of the clock: half a debounce window
TickMs == updateDebounceMs \div 2

\* Date.now() when the store is created: three steps before the clock stops
StartTime == MaxTime - 3 * TickMs

\* the state passed to create()
InitialState ==
  [rawData |-> "", parsedData |-> <<>>, headers |-> <<>>, isTransposed |-> FALSE,
   removeOutliers |-> FALSE, standardize |-> FALSE, normalize |-> FALSE,
   dependentVariable |-> "", independentVariables |-> <<>>,
   visualizationMapping |-> <<>>,
   regressionResult |-> NoResult, activeTab |-> "input",
   isLoading |-> FALSE, error |-> NoError,
   lastUpdateTime |-> 0, updateDebounceMs |-> updateDebounceMs]

\* set(patch) of zustand: the fields of patch replace those of the state
Set(state, patch) ==
  [k \in DOMAIN state |-> IF k \in DOMAIN patch THEN patch[k] ELSE state[k]]

\* fitInfo describes the call of runRegressionImmediate that produced the
\* current state, when the last step was one: how it ended, who called it,
\* the store it found, and the calls it made to the matrix helpers
NoFit == [kind |-> "none", via |-> "none", before |-> InitialState,
          detCalls |-> <<>>, invCalls |-> <<>>]

\* view holds the last value computed outside the store (by a panel or by
\* a helper called on its own): what was computed, from what, and the value
NoView == [op |-> "none", input |-> <<>>, output |-> <<>>]

\* batch counts, for the due time of the timer that fired last, the timer
\* callbacks that have run with that due time
NoBatch == [due |-> 0, runs |-> 0]

Init ==
  /\ store = InitialState
  /\ now = StartTime
  /\ timers = <<>>
  /\ fitInfo = NoFit
  /\ batch = NoBatch
  /\ view = NoView

\* headers[i] || fallback
HeaderOr(hs, i, fallback) ==
  IF 1 <= i /\ i <= Len(hs) /\ hs[i] # "" THEN hs[i] ELSE fallback

\* if (normalize) processedData = normalizeData(processedData, headers)
NormalizeStep(state, processedData, hs) ==
  IF state.normalize THEN normalizeData(processedData, hs) ELSE processedData

\* if (standardize) processedData = standardizeData(processedData, headers)
StandardizeStep(state, processedData, hs) ==
  NormalizeStep(state,
                IF state.standardize THEN standardizeData(processedData, hs)
                ELSE processedData,
                hs)

\* the steps with standardization ahead of the outlier removal
PreprocessStandardizeFirst(state, data, hs) ==
  NormalizeStep(state,
                IF state.removeOutliers
                THEN removeOutliersFromData(IF state.standardize
                                            THEN standardizeData(data, hs) ELSE data, hs)
                ELSE IF state.standardize THEN standardizeData(data, hs) ELSE data,
                hs)

\* the data after the preprocessing steps the flags of state switch on
Preprocess(state, data, hs) ==
  StandardizeStep(state,
                  IF state.removeOutliers THEN removeOutliersFromData(data, hs)
                  ELSE data,
                  hs)

PatchOfParsedData(state, data, hs) ==
  [parsedData |-> Preprocess(state, data, hs),
   headers |-> hs,
   error |-> NoError,
   dependentVariable |-> HeaderOr(hs, Len(hs), ""),
   independentVariables |-> IF Len(hs) = 0 THEN <<>> ELSE SubSeq(hs, 1, Len(hs) - 1),
   visualizationMapping |-> Tup([i \in 1..5 |-> HeaderOr(hs, i, "undefined")])]

\* the patch setParsedData(data) applies
SetParsedDataPatch(state, data) ==
  PatchOfParsedData(state, data, IF Len(data) > 0 THEN Keys(data[1]) ELSE <<>>)

setParsedData(data) ==
  /\ store' = Set(store, SetParsedDataPatch(store, data))
  /\ fitInfo' = NoFit
  /\ UNCHANGED <<now, timers, batch>>

setDependentVariable(variable) ==
  /\ store' = Set(store, [dependentVariable |-> variable])
  /\ fitInfo' = NoFit
  /\ UNCHANGED <<now, timers, batch>>

setIndependentVariables(variables) ==
  /\ store' = Set(store, [independentVariables |-> variables])
  /\ fitInfo' = NoFit
  /\ UNCHANGED <<now, timers, batch>>

\* handleIndependentVariableToggle(variable) of the regression view
handleIndependentVariableToggle(variable) ==
  IF variable \in Range(store.independentVariables)
  THEN setIndependentVariables(SelectSeq(store.independentVariables,
                                         LAMBDA v : v # variable))
  ELSE setIndependentVariables(store.independentVariables \o <<variable>>)

\* options: the flags named, as a record over a subset of the three names
\* a setProcessingOptions that also runs the preprocessing on the rows held
setProcessingOptionsApplying(options) ==
  /\ store' = Set(Set(store, options),
                  [parsedData |-> Preprocess(Set(store, options), store.parsedData,
                                             store.headers)])
  /\ fitInfo' = NoFit
  /\ UNCHANGED <<now, timers, batch>>

setProcessingOptions(options) ==
  /\ store' = Set(store,
       [removeOutliers |-> IF "removeOutliers" \in DOMAIN options
                           THEN options.removeOutliers ELSE store.removeOutliers,
        standardize |-> IF "standardize" \in DOMAIN options
                        THEN options.standardize ELSE store.standardize,
        normalize |-> IF "normalize" \in DOMAIN options
                      THEN options.normalize ELSE store.normalize])
  /\ fitInfo' = NoFit
  /\ UNCHANGED <<now, timers, batch>>

setError(e) ==
  /\ store' = Set(store, [error |-> e])
  /\ fitInfo' = NoFit
  /\ UNCHANGED <<now, timers, batch>>

\* !parsedData.length || !dependentVariable || !independentVariables.length
SelectionMissing(state) ==
  \/ Len(state.parsedData) = 0
  \/ state.dependentVariable = ""
  \/ Len(state.independentVariables) = 0

\* a guard that is reached after the loading flag was raised
GuardPatchAfterStart == [error |-> ErrInvalidSelection, isLoading |-> TRUE]

GuardPatch == [error |-> ErrInvalidSelection]

TryStartPatch(t) == [isLoading |-> TRUE, error |-> NoError, lastUpdateTime |-> t]

SuccessPatch(result) == [regressionResult |-> <<result>>, isLoading |-> FALSE]

\* a catch handler that also drops the result
CatchPatchClearsResult(message) ==
  [error |-> message, isLoading |-> FALSE, regressionResult |-> NoResult]

CatchPatch(message) == [error |-> message, isLoading |-> FALSE]

\* a fit that preprocesses the data again when the normalize flag is on
FitUsingFlags(state) ==
  FitBody(NormalizeStep(state, state.parsedData, state.headers),
          state.dependentVariable, state.independentVariables)

\* what the try block does with the store it finds
Fit(state) ==
  FitBody(state.parsedData, state.dependentVariable, state.independentVariables)

\* the store after runRegressionImmediate() called in state at time t, out
\* being the outcome of the try block
AfterFit(state, t, out) ==
  IF SelectionMissing(state) THEN Set(state, GuardPatch)
  ELSE IF out.thrown # NoError
       THEN Set(Set(state, TryStartPatch(t)), CatchPatch(out.thrown))
       ELSE Set(Set(state, TryStartPatch(t)), SuccessPatch(out.result))

\* how a call of runRegressionImmediate() in state ends, out being the
\* outcome of the try block
KindOf(state, out) ==
  IF SelectionMissing(state) THEN "invalid"
  ELSE IF out.thrown # NoError THEN "failed" ELSE "stored"

\* the record kept of the last call
FitRecord(state, via, out) ==
  [kind |-> KindOf(state, out), via |-> via, before |-> state,
   detCalls |-> IF SelectionMissing(state) THEN <<>> ELSE out.detCalls,
   invCalls |-> IF SelectionMissing(state) THEN <<>> ELSE out.invCalls]

FitStep(via, out) ==
  /\ store' = AfterFit(store, now, out)
  /\ fitInfo' = FitRecord(store, via, out)

\* runRegressionImmediate(), called directly or from a timer; the caller
\* says what happens to the timers
runRegressionImmediate(via) == FitStep(via, Fit(store))

\* currentTime - lastUpdateTime
Elapsed == now - store.lastUpdateTime

\* runRegression(): inside the debounce window the fit is handed to
\* setTimeout, outside it runs at once
runRegression ==
  IF Elapsed < store.updateDebounceMs
  THEN /\ Len(timers) < MaxTimers
       /\ timers' = Append(timers, now + (store.updateDebounceMs - Elapsed))
       /\ fitInfo' = NoFit
       /\ UNCHANGED <<store, now, batch>>
  ELSE /\ runRegressionImmediate("runRegression")
       /\ UNCHANGED <<now, timers, batch>>

RemoveAt(s, i) == SubSeq(s, 1, i - 1) \o SubSeq(s, i + 1, Len(s))

\* the callback of the earliest timer that is due runs
TimerFire ==
  \E i \in 1..Len(timers) :
    /\ timers[i] <= now
    /\ \A j \in 1..Len(timers) :
         timers[j] > timers[i] \/ (timers[j] = timers[i] /\ j >= i)
    /\ timers' = RemoveAt(timers, i)
    /\ batch' = IF batch.due = timers[i]
                THEN [batch EXCEPT !.runs = @ + 1]
                ELSE [due |-> timers[i], runs |-> 1]
    /\ runRegressionImmediate("timer")
    /\ UNCHANGED now

Tick ==
  /\ now + TickMs <= MaxTime
  /\ now' = now + TickMs
  /\ fitInfo' = NoFit
  /\ UNCHANGED <<store, timers, batch>>

\* the object reset() passes to set()
ResetState ==
  [rawData |-> "", parsedData |-> <<>>, headers |-> <<>>, isTransposed |-> FALSE,
   removeOutliers |-> FALSE, standardize |-> FALSE, normalize |-> FALSE,
   dependentVariable |-> "", independentVariables |-> <<>>,
   visualizationMapping |-> <<>>,
   regressionResult |-> NoResult, activeTab |-> "input",
   isLoading |-> FALSE, error |-> NoError,
   lastUpdateTime |-> 0, updateDebounceMs |-> 300]

\* a reset that also drops the timers that are waiting
resetCancelling ==
  /\ store' = Set(store, ResetState)
  /\ fitInfo' = NoFit
  /\ timers' = <<>>
  /\ UNCHANGED <<now, batch>>

reset ==
  /\ store' = Set(store, ResetState)
  /\ fitInfo' = NoFit
  /\ UNCHANGED <<now, timers, batch>>

\* ------------------------------------------------------------------------
\* Spec: loading data, choosing variables and fitting, at one instant
\* ------------------------------------------------------------------------
StoreData ==
  {Dataset(<<"a", "b", "d">>, MaxRows), Dataset(<<"a", "d">>, 2), <<>>}

\* the checkboxes of the regression view: the headers other than the
\* dependent variable
Checkboxes == {h \in Range(store.headers) : h # store.dependentVariable}

Next ==
  \/ \E data \in StoreData : setParsedData(data) /\ UNCHANGED view
  \/ \E variable \in Range(store.headers) :
       setDependentVariable(variable) /\ UNCHANGED view
  \/ \E variable \in Checkboxes :
       handleIndependentVariableToggle(variable) /\ UNCHANGED view
  \/ runRegressionImmediate("direct") /\ UNCHANGED <<now, timers, batch, view>>
  \/ reset /\ UNCHANGED view

Spec == Init /\ [][Next]_vars

\* ------------------------------------------------------------------------
\* SpecFit: fits of a store that has just loaded a dataset, for every
\* dataset of FitData
\* ------------------------------------------------------------------------
ColumnNames == <<"a", "b", "c", "d", "e", "m">>

\* the columns of S in the order of ColumnNames, then the column dep
FitColumns ==
  {SelectSeq(ColumnNames, LAMBDA x : x \in S) \o <<dep>> :
     <<S, dep>> \in {sd \in (SUBSET Range(ColumnNames)) \X Range(ColumnNames) :
                      /\ sd[2] \notin sd[1]
                      /\ Cardinality(sd[1]) \in 1..(MaxCols - 1)}}

FitData == {Dataset(cols, n) : cols \in FitColumns, n \in 1..MaxRows}

FitErrors == {NoError, ErrInvalidSelection}

InitFit ==
  /\ \E data \in FitData :
       store = Set(InitialState, SetParsedDataPatch(InitialState, data))
  /\ now = StartTime
  /\ timers = <<>>
  /\ fitInfo = NoFit
  /\ batch = NoBatch
  /\ view = NoView

\* the options the three switches of the input view pass
FitOptions ==
  {[removeOutliers |-> v] : v \in BOOLEAN}
    \cup {[standardize |-> v] : v \in BOOLEAN}
    \cup {[normalize |-> v] : v \in BOOLEAN}

NextFit ==
  \/ runRegressionImmediate("direct") /\ UNCHANGED <<now, timers, batch, view>>
  \/ \E e \in FitErrors : setError(e) /\ UNCHANGED view
  \/ \E options \in FitOptions : setProcessingOptions(options) /\ UNCHANGED view

SpecFit == InitFit /\ [][NextFit]_vars

\* ------------------------------------------------------------------------
\* SpecDebounce: requests for a fit, the clock and the timers
\* ------------------------------------------------------------------------
DebounceData == {Dataset(<<"a", "d">>, MaxRows), <<>>}

NextDebounce ==
  \/ \E data \in DebounceData : setParsedData(data) /\ UNCHANGED view
  \/ runRegression /\ UNCHANGED view
  \/ TimerFire /\ UNCHANGED view
  \/ Tick /\ UNCHANGED view
  \/ reset /\ UNCHANGED view

SpecDebounce == Init /\ [][NextDebounce]_vars

\* ------------------------------------------------------------------------
\* Properties
\* ------------------------------------------------------------------------
Fitted == fitInfo.kind # "none"

Before == fitInfo.before

\* C1: a fit that fails leaves regressionResult as it found it and sets an
\* error message; a fit that succeeds stores the complete result of that
\* fit and leaves error null
FitIsAtomic ==
  /\ fitInfo.kind \in {"failed", "invalid"} =>
       /\ store.regressionResult = Before.regressionResult
       /\ store.error # NoError
  /\ fitInfo.kind = "stored" =>
       /\ store.regressionResult = <<Fit(Before).result>>
       /\ Fit(Before).thrown = NoError
       /\ store.error = NoError

\* a fit has just failed in a store that held a result
FailedFitKeepsResult ==
  /\ fitInfo.kind = "failed"
  /\ Before.regressionResult # NoResult
  /\ store.regressionResult # NoResult

\* the fit reached the try block
Ran == fitInfo.kind \in {"failed", "stored"}

\* the rows, the response and the regressors the fit worked on
BeforeValid ==
  ValidData(Before.parsedData, Before.dependentVariable, Before.independentVariables)

BeforeY ==
  Tup([i \in 1..Len(BeforeValid) |-> Get(BeforeValid[i], Before.dependentVariable)])

BeforeX ==
  Tup([i \in 1..Len(BeforeValid) |->
     Tup([j \in 1..Len(Before.independentVariables) |->
        Get(BeforeValid[i], Before.independentVariables[j])])])

\* X'X of the design matrix with its intercept column
BeforeXMatrix == Tup([i \in 1..Len(BeforeX) |-> <<One>> \o BeforeX[i]])

BeforeXTX == MMul(Transpose(BeforeXMatrix), BeforeXMatrix)

\* m without its first row and without column j
Minor(m, j) ==
  Tup([r \in 1..(Len(m) - 1) |->
     Tup([c \in 1..(Len(m) - 1) |-> m[r + 1][IF c < j THEN c ELSE c + 1]])])

\* the determinant by expansion along the first row
RECURSIVE Laplace(_)
RECURSIVE LaplaceSum(_, _)
LaplaceSum(m, j) ==
  IF j > Len(m) THEN Zero
  ELSE Add(Mul(Mul(Q(IF j % 2 = 1 THEN 1 ELSE -1), m[1][j]), Laplace(Minor(m, j))),
           LaplaceSum(m, j + 1))

Laplace(m) == IF Len(m) = 1 THEN m[1][1] ELSE LaplaceSum(m, 1)

MultiFit == Ran /\ Len(Before.independentVariables) >= 2

SingleFit == Ran /\ Len(Before.independentVariables) = 1

\* C2: a fit on two or more regressors whose X'X is singular fails with
\* the multicollinearity error, leaves the stored result alone and never
\* calls calculateMatrixInverse
SingularDesignStopsBeforeInversion ==
  (MultiFit /\ Len(BeforeValid) >= 2 /\ Laplace(BeforeXTX) = Zero) =>
    /\ fitInfo.kind = "failed"
    /\ store.error = ErrMulticollinearity
    /\ store.regressionResult = Before.regressionResult
    /\ Len(fitInfo.detCalls) = 1
    /\ fitInfo.invCalls = <<>>

\* a fit on the columns a and b = 2a, with every row valid, was rejected
CollinearColumnsRejected ==
  /\ MultiFit
  /\ Before.independentVariables = <<"a", "b">>
  /\ Len(BeforeValid) = MaxRows
  /\ store.error = ErrMulticollinearity
  /\ fitInfo.invCalls = <<>>

\* C3: a fit on two or more regressors with no more valid rows than
\* coefficients fails with the too-few-observations error (or the
\* not-enough-valid-data error) and stores no result
FewObservationsReported ==
  (MultiFit /\ Len(BeforeValid) - (Len(Before.independentVariables) + 1) <= 0) =>
    /\ fitInfo.kind = "failed"
    /\ store.error \in {ErrFewObservations, ErrNotEnoughValid}
    /\ store.regressionResult = Before.regressionResult

\* C4: a fit on one regressor with exactly two valid rows fails and stores
\* no result
TwoRowsRejected ==
  (SingleFit /\ Len(BeforeValid) = 2) =>
    /\ fitInfo.kind = "failed"
    /\ store.error \in {ErrFewObservations, ErrNotEnoughValid}
    /\ store.regressionResult = Before.regressionResult

\* every valid row has the same value of the dependent variable
ConstantResponse == \A i \in 1..Len(BeforeY) : BeforeY[i] = BeforeY[1]

\* C5: a fit whose dependent variable is constant over the valid rows
\* fails and stores no result, with one regressor or with several
ConstantResponseRejected ==
  (Ran /\ Len(BeforeValid) >= 2 /\ ConstantResponse) =>
    /\ fitInfo.kind = "failed"
    /\ store.regressionResult = Before.regressionResult

\* C6: a fit called with no data, no dependent variable or no independent
\* variable changes nothing in the store but error, which becomes the
\* invalid-selection message, and calls no matrix helper
InvalidSelectionOnlySetsError ==
  fitInfo.kind = "invalid" =>
    /\ store = [Before EXCEPT !.error = ErrInvalidSelection]
    /\ fitInfo.detCalls = <<>>
    /\ fitInfo.invCalls = <<>>

\* a fit was refused for want of independent variables, in a store that
\* holds data and a result
RefusedWithResult ==
  /\ fitInfo.kind = "invalid"
  /\ Len(Before.parsedData) > 0
  /\ Before.independentVariables = <<>>
  /\ Before.regressionResult # NoResult

\* C7: the result stored for a single regressor is the result the matrix
\* path computes on the same rows
SimpleFitMatchesMatrixPath ==
  (SingleFit /\ fitInfo.kind = "stored" /\ MatrixFit(BeforeX, BeforeY).thrown = NoError) =>
    store.regressionResult = <<MatrixFit(BeforeX, BeforeY).result>>

\* C8: of the timers set by the requests made in one debounce window, at
\* most one runs a fit
RequestsCoalesced == batch.runs <= 1

\* the dataset and the selection a fit reads
FitInputs(state) ==
  <<state.parsedData, state.dependentVariable, state.independentVariables>>

ArgumentsKept(calls) == \A i \in 1..Len(calls) : calls[i].after = calls[i].arg

Stored == store.regressionResult[1]

\* a fit has just stored its result
JustStored == fitInfo.kind = "stored"

\* a is a number between lo and hi
Between(a, lo, hi) == Le(lo, a) /\ Le(a, hi)

\* C11: every result stored by a fit whose dependent variable is not
\* constant has R2 in [0,1] and, as p > 1 in every fit, adjusted R2 <= R2
RSquaredInRange ==
  (JustStored /\ Lt(Zero, TotalSumSquares(BeforeY))) =>
    /\ Between(Stored.rSquared, Zero, One)
    /\ Le(Stored.adjustedRSquared, Stored.rSquared)

\* the sum over j of coefficients[j + 1] * row[j], from regressor j on
RECURSIVE LinearPart(_, _, _)
LinearPart(coefficients, row, j) ==
  IF j > Len(row) THEN Zero
  ELSE Add(Mul(coefficients[j + 1], row[j]), LinearPart(coefficients, row, j + 1))

\* C12: in every stored result residuals and predictions have one entry
\* per valid row, in row order: predictions[i] is the intercept
\* coefficients[1] plus the regressors of valid row i weighted by the other
\* coefficients, and residuals[i] = y[i] - predictions[i]; coefficients has
\* one entry per independent variable and one for the intercept
ResultShape ==
  JustStored =>
    /\ Len(Stored.residuals) = Len(BeforeValid)
    /\ Len(Stored.predictions) = Len(BeforeValid)
    /\ Len(Stored.coefficients) = Len(Before.independentVariables) + 1
    /\ \A i \in 1..Len(BeforeValid) :
         /\ Stored.predictions[i] =
              Add(Stored.coefficients[1], LinearPart(Stored.coefficients, BeforeX[i], 1))
         /\ Stored.residuals[i] = Sub(BeforeY[i], Stored.predictions[i])

\* a fit on several regressors has stored a result for a dataset that lost
\* a row to the completeness filter, with a residual that is not zero
FilteredFitStored ==
  /\ JustStored
  /\ MultiFit
  /\ Len(BeforeValid) < Len(Before.parsedData)
  /\ \E i \in 1..Len(BeforeValid) :
       IsFinite(Stored.residuals[i]) /\ Stored.residuals[i] # Zero

\* ------------------------------------------------------------------------
\* The diagnostics panel
\* ------------------------------------------------------------------------
\* what an arithmetic operator makes of a cell: null counts as 0, undefined
\* as NaN
ToNumber(v) == IF v = Null THEN Zero ELSE IF v = Undefined THEN NaN ELSE v

\* parsedData.map(row => row[col]), as the arithmetic reads it
DiagColumn(parsedData, col) ==
  Tup([r \in 1..Len(parsedData) |-> ToNumber(Get(parsedData[r], col))])

\* the floor of R^2 in the VIF formula
RSquaredFloor == <<1, 1000>>

\* vif = 1 / (1 - Math.max(rSquared, 0.001)); vifValues[targetVar] = Math.max(vif, 1)
VifOf(rSquared) == MathMax(Div(One, Sub(One, MathMax(rSquared, RSquaredFloor))), One)

\* sum of (x - meanX) * (y - meanY)
CrossProducts(x, meanX, y, meanY) ==
  Sum(Tup([i \in 1..Len(x) |-> Mul(Sub(x[i], meanX), Sub(y[i], meanY))]))

\* sum of (actual - prediction)^2
ResidualSumSquares(y, predictions) ==
  SumSquares(Tup([i \in 1..Len(y) |-> Sub(y[i], predictions[i])]))

\* the value left in vifValues for one variable; degenerate names the
\* neutral-default assignment its nested regression went through
VifEntry(value, degenerate) == [vif |-> value, degenerate |-> degenerate]

\* calculateVIF returning null
NoVif == <<>>

\* the branch otherVars.length === 1, from the slope on
VifSimpleLine(y, x, totalSumSquares, slope, intercept) ==
  VifEntry(VifOf(Sub(One, Div(ResidualSumSquares(y,
             Tup([i \in 1..Len(x) |-> Add(intercept, Mul(slope, x[i]))])),
             totalSumSquares))), "none")

VifSimpleSums(y, x, meanY, meanX, totalSumSquares, numerator, denominator) ==
  IF denominator = Zero THEN VifEntry(One, "regressor")
  ELSE VifSimpleLine(y, x, totalSumSquares, Div(numerator, denominator),
                     Sub(meanY, Mul(Div(numerator, denominator), meanX)))

VifSimpleMeans(y, x, meanY, meanX, totalSumSquares) ==
  VifSimpleSums(y, x, meanY, meanX, totalSumSquares,
                CrossProducts(x, meanX, y, meanY), SumSquaresAbout(x, meanX))

VifSimple(y, x, meanY, totalSumSquares) ==
  VifSimpleMeans(y, x, meanY, Mean(x), totalSumSquares)

\* the elimination loop written out in calculateVIF, from row i on: a pivot
\* below the tolerance assigns vifValues[targetVar] = 1 and continues with
\* the next row of the elimination
RECURSIVE VifJordanLoop(_, _, _)
VifJordanStep(swapped, i, singular) ==
  IF BelowTolerance(swapped[i][i])
  THEN VifJordanLoop(swapped, i + 1, TRUE)
  ELSE VifJordanLoop(JordanEliminate(swapped, i), i + 1, singular)

VifJordanLoop(aug, i, singular) ==
  IF i > Len(aug) THEN [augmented |-> aug, singular |-> singular]
  ELSE VifJordanStep(PivotRows(aug, i, FindPivot(aug, i, i + 1, i)), i, singular)

\* row.reduce((sum, val, j) => sum + val * v[j], 0) for every row
MatVec(m, v) ==
  Tup([i \in 1..Len(m) |-> Sum(Tup([j \in 1..Len(v) |-> Mul(m[i][j], v[j])]))])

VifMatrixPredicted(y, totalSumSquares, predictions, singular) ==
  VifEntry(VifOf(Sub(One, Div(ResidualSumSquares(y, predictions), totalSumSquares))),
           IF singular THEN "pivot" ELSE "none")

VifMatrixInverted(y, XMatrix, XTy, totalSumSquares, invXTX, singular) ==
  VifMatrixPredicted(y, totalSumSquares, MatVec(XMatrix, MatVec(invXTX, XTy)), singular)

VifMatrixEliminated(y, XMatrix, XTy, totalSumSquares, r) ==
  VifMatrixInverted(y, XMatrix, XTy, totalSumSquares,
                    RightHalf(r.augmented, Len(XTy)), r.singular)

VifMatrixProducts(y, XMatrix, XTX, XTy, totalSumSquares) ==
  VifMatrixEliminated(y, XMatrix, XTy, totalSumSquares,
                      VifJordanLoop(Augment(XTX, Identity(Len(XTX))), 1, FALSE))

VifMatrixDesign(y, XMatrix, XT, totalSumSquares) ==
  VifMatrixProducts(y, XMatrix, MMul(XT, XMatrix), MatVec(XT, y), totalSumSquares)

VifMatrixRows(y, XMatrix, totalSumSquares) ==
  VifMatrixDesign(y, XMatrix, Transpose(XMatrix), totalSumSquares)

\* the branch of two and more other variables; XMatrix = X.map(row => [1, ...row])
VifMatrix(y, parsedData, otherVars, totalSumSquares) ==
  VifMatrixRows(y,
    Tup([r \in 1..Len(parsedData) |->
       <<One>> \o Tup([j \in 1..Len(otherVars) |->
                         ToNumber(Get(parsedData[r], otherVars[j]))])]),
    totalSumSquares)

VifTarget(y, parsedData, otherVars, meanY, totalSumSquares) ==
  IF totalSumSquares = Zero THEN VifEntry(One, "target")
  ELSE IF Len(otherVars) = 1
  THEN VifSimple(y, DiagColumn(parsedData, otherVars[1]), meanY, totalSumSquares)
  ELSE VifMatrix(y, parsedData, otherVars, totalSumSquares)

VifMean(y, parsedData, otherVars, meanY) ==
  VifTarget(y, parsedData, otherVars, meanY, SumSquaresAbout(y, meanY))

\* one turn of the loop over the independent variables
VifOfVariable(parsedData, independentVariables, i) ==
  VifMean(DiagColumn(parsedData, independentVariables[i]), parsedData,
          RemoveAt(independentVariables, i),
          Mean(DiagColumn(parsedData, independentVariables[i])))

\* calculateVIF(): null below two independent variables, else one entry
\* for every independent variable, in their order
calculateVIF(parsedData, independentVariables) ==
  IF Len(independentVariables) < 2 THEN NoVif
  ELSE Tup([i \in 1..Len(independentVariables) |->
              VifOfVariable(parsedData, independentVariables, i)])

\* sum over i >= 1 of (residuals[i] - residuals[i-1])^2
SuccessiveDifferences(residuals) ==
  SumSquares(Tup([i \in 1..(Len(residuals) - 1) |-> Sub(residuals[i + 1], residuals[i])]))

DurbinWatsonLow == <<3, 2>>
DurbinWatsonHigh == <<5, 2>>

DurbinWatsonInterpretation(dwStatistic) ==
  IF Lt(dwStatistic, DurbinWatsonLow) THEN "positive autocorrelation"
  ELSE IF Lt(DurbinWatsonHigh, dwStatistic) THEN "negative autocorrelation"
  ELSE "no autocorrelation"

DurbinWatsonResult(dwStatistic) ==
  [statistic |-> dwStatistic, interpretation |-> DurbinWatsonInterpretation(dwStatistic)]

performDurbinWatsonTest(residuals) ==
  DurbinWatsonResult(Div(SuccessiveDifferences(residuals), SumSquares(residuals)))

\* an independence entry that takes the two thresholds as outside the range
IndependenceStrict(independenceTest) ==
  [statistic |-> independenceTest.statistic,
   status |-> IF Lt(DurbinWatsonLow, independenceTest.statistic)
                 /\ Lt(independenceTest.statistic, DurbinWatsonHigh)
              THEN "good" ELSE "warning",
   message |-> independenceTest.interpretation]

\* the independence entry of assessModelAssumptions
IndependenceOf(independenceTest) ==
  [statistic |-> independenceTest.statistic,
   status |-> IF Le(DurbinWatsonLow, independenceTest.statistic)
                 /\ Le(independenceTest.statistic, DurbinWatsonHigh)
              THEN "good" ELSE "warning",
   message |-> independenceTest.interpretation]

Independence(residuals) == IndependenceOf(performDurbinWatsonTest(residuals))

\* (res * res * leverage) / (p * mse) for every residual, p being the number
\* of coefficients
CooksDistances(result, leverage) ==
  Tup([i \in 1..Len(result.residuals) |->
         Div(Mul(Mul(result.residuals[i], result.residuals[i]), leverage),
             Mul(Q(Len(result.coefficients)), result.mse))])

\* the influences of generateInfluencePlot: leverage = p / n
generateInfluencePlot(result) ==
  CooksDistances(result, Div(Q(Len(result.coefficients)), Q(Len(result.residuals))))

\* one rendering of the panel: nothing is computed without data and a
\* result; else the VIF values and the assumption checks are computed from
\* the store
DiagnosticsPanel ==
  /\ Len(store.parsedData) > 0
  /\ store.regressionResult # NoResult
  /\ view' = [op |-> "DiagnosticsPanel",
              input |-> [parsedData |-> store.parsedData,
                         independentVariables |-> store.independentVariables,
                         residuals |-> store.regressionResult[1].residuals],
              output |-> [vifValues |-> calculateVIF(store.parsedData,
                                                     store.independentVariables),
                          independence |->
                            Independence(store.regressionResult[1].residuals),
                          cooksDistances |->
                            generateInfluencePlot(store.regressionResult[1])]]
  /\ fitInfo' = NoFit
  /\ UNCHANGED <<store, now, timers, batch>>

\* ------------------------------------------------------------------------
\* SpecDiagnostics: data, selection, fit and the diagnostics panel
\* ------------------------------------------------------------------------
DiagnosticsData ==
  {Dataset(<<"a", "b", "c", "d">>, MaxRows), Dataset(<<"a", "d", "e", "m">>, MaxRows),
   Dataset(<<"x", "a", "d">>, MaxRows)}

\* a change of the store leaves the values of the last rendering behind
NextDiagnostics ==
  \/ \E data \in DiagnosticsData : setParsedData(data) /\ view' = NoView
  \/ \E variable \in Checkboxes :
       handleIndependentVariableToggle(variable) /\ view' = NoView
  \/ runRegressionImmediate("direct") /\ view' = NoView
       /\ UNCHANGED <<now, timers, batch>>
  \/ DiagnosticsPanel

SpecDiagnostics == Init /\ [][NextDiagnostics]_vars

Rendered == view.op = "DiagnosticsPanel"
VifValues == view.output.vifValues
VifInput == view.input.independentVariables

\* C13: every value calculateVIF returns for an independent variable is a
\* number that is at least 1 (never below 1, never NaN), whatever the data
\* and the selection of two or more independent variables
VifAtLeastOne ==
  Rendered => \A i \in 1..Len(VifValues) : Le(One, VifValues[i].vif)

\* C14: a variable whose nested regression is degenerate (constant target,
\* zero-variance single regressor, or a pivot below the tolerance in the
\* elimination of the nested X'X) is reported with the neutral VIF 1, and
\* every independent variable still has its entry
DegenerateVifIsNeutral ==
  Rendered =>
    /\ Len(VifInput) >= 2 => Len(VifValues) = Len(VifInput)
    /\ \A i \in 1..Len(VifValues) :
         VifValues[i].degenerate # "none" => VifValues[i].vif = One

\* ------------------------------------------------------------------------
\* SpecPreprocess: the three switches and the loading of data
\* ------------------------------------------------------------------------
PreprocessData ==
  {Dataset(<<"p", "q">>, MaxRows), Dataset(<<"q", "p">>, MaxRows),
   Dataset(<<"a", "c", "d">>, MaxRows), Dataset(<<"m", "e">>, MaxRows),
   Dataset(<<"a", "c">>, 1)}

\* setParsedData(data), with the call kept for reference: the rows passed
\* and the switches as they were
LoadData(data) ==
  /\ setParsedData(data)
  /\ view' = [op |-> "setParsedData",
              input |-> [data |-> data,
                         removeOutliers |-> store.removeOutliers,
                         standardize |-> store.standardize,
                         normalize |-> store.normalize],
              output |-> <<>>]

NextPreprocess ==
  \/ \E options \in FitOptions : setProcessingOptions(options) /\ UNCHANGED view
  \/ \E data \in PreprocessData : LoadData(data)

SpecPreprocess == Init /\ [][NextPreprocess]_vars

Loaded == view.op = "setParsedData"
LoadedData == view.input.data
OnlyOutlierRemoval ==
  Loaded /\ view.input.removeOutliers /\ ~view.input.standardize /\ ~view.input.normalize

\* the rows of data whose cell in column header is absent or inside the
\* bounds computed from that column of data
InsideColumnBounds(data, header) == Range(RemoveOutliersOf(data, header))

Reverse(s) == Tup([i \in 1..Len(s) |-> s[Len(s) + 1 - i]])

\* C15: outlier removal keeps exactly the rows in which every column's
\* present value lies inside [Q1 - 1.5 IQR, Q3 + 1.5 IQR], the quartiles
\* being those of that column of the input dataset, and the rows kept do not
\* depend on the order in which the columns are processed
OutlierRowsByInputQuartiles ==
  OnlyOutlierRemoval =>
    /\ store.parsedData =
         SelectSeq(LoadedData,
                   LAMBDA row : \A h \in Range(store.headers) :
                                   row \in InsideColumnBounds(LoadedData, h))
    /\ store.parsedData = removeOutliersFromData(LoadedData, Reverse(store.headers))

AfterOutlierRemoval ==
  IF view.input.removeOutliers THEN removeOutliersFromData(LoadedData, store.headers)
  ELSE LoadedData

AfterStandardization ==
  IF view.input.standardize THEN standardizeData(AfterOutlierRemoval, store.headers)
  ELSE AfterOutlierRemoval

AfterNormalization ==
  IF view.input.normalize THEN normalizeData(AfterStandardization, store.headers)
  ELSE AfterStandardization

\* C16: setParsedData applies the enabled transforms in the order outlier
\* removal, standardization, normalization, each on the output of the one
\* before, and a disabled transform leaves the data as it is
PreprocessingInFixedOrder ==
  Loaded =>
    /\ store.parsedData = AfterNormalization
    /\ (~view.input.removeOutliers /\ ~view.input.standardize /\ ~view.input.normalize)
         => store.parsedData = LoadedData

\* all three switches on, rows removed, and the cells changed afterwards
AllThreeApplied ==
  /\ Loaded
  /\ view.input.removeOutliers /\ view.input.standardize /\ view.input.normalize
  /\ Len(store.parsedData) < Len(LoadedData)
  /\ store.parsedData # AfterOutlierRemoval
  /\ store.parsedData # AfterStandardization

\* the column holds one value in every row where it is present
ConstantColumn(data, header) ==
  \A v, w \in Range(ColumnValues(data, header)) : v = w

RescaledOnly ==
  Loaded /\ ~view.input.removeOutliers /\ (view.input.standardize \/ view.input.normalize)

\* C17: standardization and normalization leave a column without spread
\* (standard deviation 0, max = min) exactly as it was and write no NaN and
\* no infinite value into any cell, a dataset of a single row included
DegenerateColumnsUntouched ==
  RescaledOnly =>
    \A r \in 1..Len(LoadedData) : \A h \in Range(store.headers) :
      /\ ConstantColumn(LoadedData, h) =>
           Get(store.parsedData[r], h) = Get(LoadedData[r], h)
      /\ Get(store.parsedData[r], h) = Null \/ IsFinite(Get(store.parsedData[r], h))

\* ------------------------------------------------------------------------
\* SpecMatrix: the two matrix helpers called on their own
\* ------------------------------------------------------------------------
UnitRow(n, i) == Tup([j \in 1..n |-> IF i = j THEN One ELSE Zero])

CountRow(n) == Tup([j \in 1..n |-> Q(j)])

RowChoices(n) == {UnitRow(n, i) : i \in 1..n} \cup {CountRow(n)}

\* the n x n matrices whose rows are unit rows or the row 1, 2, .., n
RowMatrices(n) == {Tup(m) : m \in [1..n -> RowChoices(n)]}

SmallEntries == {Q(-1), Zero, One, Two}

\* the matrices of one and two rows with small whole entries
SmallMatrices ==
  {<<<<a>>>> : a \in SmallEntries}
    \cup {<<<<a, b>>, <<c, d>>>> : a \in SmallEntries, b \in SmallEntries,
                                  c \in SmallEntries, d \in SmallEntries}

Matrices == SmallMatrices \cup UNION {RowMatrices(n) : n \in 2..MaxCols}

\* a matrix waiting to be passed to a helper
Argument(matrix) == [op |-> "argument", input |-> matrix, output |-> <<>>]

InitMatrix ==
  /\ store = InitialState
  /\ now = StartTime
  /\ timers = <<>>
  /\ fitInfo = NoFit
  /\ batch = NoBatch
  /\ \E matrix \in Matrices : view = Argument(matrix)

Determinant ==
  /\ view.op = "argument"
  /\ view' = [op |-> "calculateDeterminant", input |-> view.input,
              output |-> calculateDeterminant(view.input)]
  /\ UNCHANGED <<store, now, timers, fitInfo, batch>>

Invert ==
  /\ view.op = "argument"
  /\ view' = [op |-> "calculateMatrixInverse", input |-> view.input,
              output |-> calculateMatrixInverse(view.input)]
  /\ UNCHANGED <<store, now, timers, fitInfo, batch>>

NextMatrix == Determinant \/ Invert

SpecMatrix == InitMatrix /\ [][NextMatrix]_vars

Inverted == view.op = "calculateMatrixInverse"

\* the outcome of the matrix branch of the fit when its call of
\* calculateMatrixInverse ends as the call in view did
InversionOutcome ==
  MatrixInverted(<<>>, <<>>, view.input, <<>>, [arg |-> view.input], view.output)

\* a store with data, a selection and the result of an earlier fit
FittedBefore ==
  Set(Set(InitialState,
          SetParsedDataPatch(InitialState, Dataset(<<"a", "d", "e">>, MaxRows))),
      [regressionResult |-> <<"earlier">>])

InverseIsInverse ==
  /\ (view.op = "calculateDeterminant" /\ view.input = Identity(Len(view.input)))
       => view.output.ret = One
  /\ (Inverted /\ view.input = Identity(Len(view.input)))
       => (~view.output.thrown /\ view.output.ret = view.input)
  /\ (Inverted /\ Laplace(view.input) # Zero)
       => /\ ~view.output.thrown
          /\ MMul(view.input, view.output.ret) = Identity(Len(view.input))

\* an inversion of a matrix of the largest size that had to swap rows and
\* to divide
SwappedRowsInverted ==
  /\ Inverted
  /\ Len(view.input) = MaxCols
  /\ view.input[1][1] = Zero
  /\ ~view.output.thrown
  /\ \E i, j \in 1..MaxCols : view.output.ret[i][j][2] > 1

\* ------------------------------------------------------------------------
\* SpecIndependence: the independence check on given residuals
\* ------------------------------------------------------------------------
ResidualValues == {Q(-1), Zero, One}

ResidualSequences == UNION {{Tup(e) : e \in [1..n -> ResidualValues]} : n \in 1..MaxRows}

InitIndependence ==
  /\ store = InitialState
  /\ now = StartTime
  /\ timers = <<>>
  /\ fitInfo = NoFit
  /\ batch = NoBatch
  /\ \E residuals \in ResidualSequences :
       view = [op |-> "residuals", input |-> residuals, output |-> <<>>]

\* the independence part of assessModelAssumptions
assessIndependence ==
  /\ view.op = "residuals"
  /\ view' = [op |-> "independence", input |-> view.input,
              output |-> Independence(view.input)]
  /\ UNCHANGED <<store, now, timers, fitInfo, batch>>

NextIndependence == assessIndependence

SpecIndependence == InitIndependence /\ [][NextIndependence]_vars

Assessed == view.op = "independence"

\* e[i] - e[i-1] squared, added up from the second residual to the last one
RECURSIVE DifferencesFrom(_, _)
DifferencesFrom(e, i) ==
  IF i > Len(e) THEN Zero
  ELSE Add(Mul(Sub(e[i], e[i - 1]), Sub(e[i], e[i - 1])), DifferencesFrom(e, i + 1))

RECURSIVE SquaresFrom(_, _)
SquaresFrom(e, i) ==
  IF i > Len(e) THEN Zero ELSE Add(Mul(e[i], e[i]), SquaresFrom(e, i + 1))

Alternating == <<One, Q(-1), One, Q(-1), One>>

TimerLeaves ==
  \E i \in 1..Len(timers) :
    /\ timers[i] <= now
    /\ \A j \in 1..Len(timers) :
         timers[j] > timers[i] \/ (timers[j] = timers[i] /\ j >= i)
    /\ timers' = RemoveAt(timers, i)

\* time passes up to the end of the clock, and the host runs the callback
\* of a timer that is due
SpecDebounceLive ==
  /\ Init
  /\ [][NextDebounce]_vars
  /\ WF_vars(Tick /\ UNCHANGED view)
  /\ WF_timers(TimerLeaves)

\* the instants of the clock
ClockTimes == {MaxTime - k * TickMs : k \in 0..3}

PendingAt(d) == \E i \in 1..Len(timers) : timers[i] = d

FiredAt(d) == fitInfo.via = "timer" /\ batch.due = d

\* C21: a timer leaves only by firing, which runs runRegressionImmediate on
\* the store as it is at that moment; no other action removes one; and every
\* timer due within the clock's range does fire
NoCancellation ==
  /\ [][/\ Len(timers') < Len(timers) =>
             (fitInfo'.via = "timer" /\ Len(timers') = Len(timers) - 1)
        /\ fitInfo'.via = "timer" =>
             (fitInfo'.before = store /\ store' = AfterFit(store, now, Fit(store)))
        /\ fitInfo'.via = "runRegression" =>
             (Elapsed >= store.updateDebounceMs /\ timers' = timers)]_vars
  /\ \A d \in ClockTimes : PendingAt(d) ~> FiredAt(d)

\* a timer set before a reset fired after it
FiredAfterReset ==
  /\ fitInfo.via = "timer"
  /\ fitInfo.before.lastUpdateTime = 0
  /\ fitInfo.before.parsedData = <<>>

\* ------------------------------------------------------------------------
\* SpecViews: the three views that read the stored result
\* ------------------------------------------------------------------------
\* generateCooksDistance of the regression view: leverage = 1 / n
generateCooksDistance(result) ==
  CooksDistances(result, Div(One, Q(Len(result.residuals))))

\* the regression view drawing its Cook's distance plot
RegressionAnalysis ==
  /\ store.regressionResult # NoResult
  /\ Len(store.parsedData) > 0
  /\ view' = [op |-> "RegressionAnalysis",
              input |-> [residuals |-> store.regressionResult[1].residuals],
              output |-> [cooksDistances |->
                            generateCooksDistance(store.regressionResult[1])]]
  /\ fitInfo' = NoFit
  /\ UNCHANGED <<store, now, timers, batch>>

\* cooksD > cookThreshold, the threshold being 4 / n
HighInfluence(cooksDistances) ==
  SelectSeq(cooksDistances, LAMBDA cooksD : Lt(Div(Q(4), Q(Len(cooksDistances))), cooksD))

\* the stability part of calculateAdvancedMetrics: leverage = p / n, and the
\* number of observations above the threshold
AdvancedStability(cooksDistances) ==
  [cooksDistances |-> cooksDistances,
   highInfluencePoints |-> Len(HighInfluence(cooksDistances))]

calculateAdvancedMetrics ==
  /\ store.regressionResult # NoResult
  /\ Len(store.parsedData) > 0
  /\ view' = [op |-> "AdvancedAnalytics",
              input |-> [residuals |-> store.regressionResult[1].residuals],
              output |-> AdvancedStability(
                           CooksDistances(store.regressionResult[1],
                             Div(Q(Len(store.regressionResult[1].coefficients)),
                                 Q(Len(store.regressionResult[1].residuals)))))]
  /\ fitInfo' = NoFit
  /\ UNCHANGED <<store, now, timers, batch>>

ViewsData ==
  {Dataset(<<"a", "d">>, MaxRows), Dataset(<<"a", "e", "d">>, MaxRows),
   Dataset(<<"a", "d", "e", "m">>, MaxRows)}

NextViews ==
  \/ \E data \in ViewsData : setParsedData(data) /\ view' = NoView
  \/ \E variable \in Checkboxes :
       handleIndependentVariableToggle(variable) /\ view' = NoView
  \/ runRegressionImmediate("direct") /\ view' = NoView
       /\ UNCHANGED <<now, timers, batch>>
  \/ DiagnosticsPanel
  \/ RegressionAnalysis
  \/ calculateAdvancedMetrics

SpecViews == Init /\ [][NextViews]_vars

ViewDrawn == view.op \in {"DiagnosticsPanel", "RegressionAnalysis", "AdvancedAnalytics"}

\* C22: every view computes the Cook's distance of observation i from the
\* stored result as (e_i^2 * (p/n)) / (p * MSE), so the three views show the
\* same values for the same result
CooksDistanceUniform ==
  ViewDrawn =>
    view.output.cooksDistances
      = CooksDistances(Stored, Div(Q(Len(Stored.coefficients)), Q(Len(Stored.residuals))))

\* C23: once the fit of the current dataset and selection has completed,
\* with or without success, a stored result belongs to that selection: it
\* has one coefficient for the intercept and one for each independent
\* variable
ResultOfCurrentSelection ==
  (Fitted /\ store.regressionResult # NoResult) =>
    Len(Stored.coefficients) = Len(store.independentVariables) + 1

\* the fit that has just run found the store as reset leaves it
AfterReset == Fitted /\ Before = InitialState

\* C24: a debounced fit scheduled before a reset changes nothing of the
\* store when it runs after the reset: error, regressionResult, isLoading
\* and lastUpdateTime stay as reset left them
ResetIsFinal ==
  (AfterReset /\ fitInfo.via = "timer") =>
    /\ store.error = Before.error
    /\ store.regressionResult = Before.regressionResult
    /\ store.isLoading = Before.isLoading
    /\ store.lastUpdateTime = Before.lastUpdateTime

\* C25: the dependent variable is never one of the independent variables
DependentNotRegressor ==
  store.dependentVariable \notin Range(store.independentVariables)

\* ------------------------------------------------------------------------
\* SpecPValue: the p-values of two t-values at the same degrees of freedom
\* ------------------------------------------------------------------------
TValues == {Zero, Half, One, Q(-1), Two, Q(3), Q(-3), Q(6)}

DegreesOfFreedom == {1, 4, 9, 25, 36}

InitPValue ==
  /\ store = InitialState
  /\ now = StartTime
  /\ timers = <<>>
  /\ fitInfo = NoFit
  /\ batch = NoBatch
  /\ \E t1 \in TValues, t2 \in TValues, df \in DegreesOfFreedom :
       view = [op |-> "tValues",
               input |-> [tValues |-> <<t1, t2>>, degreesOfFreedom |-> df],
               output |-> <<>>]

\* the p-value pushed for every t-value
PValuesOf(tValues, degreesOfFreedom) ==
  Tup([i \in 1..Len(tValues) |-> calculatePValue(tValues[i], degreesOfFreedom)])

pValues ==
  /\ view.op = "tValues"
  /\ view' = [op |-> "pValues", input |-> view.input,
              output |-> PValuesOf(view.input.tValues, view.input.degreesOfFreedom)]
  /\ UNCHANGED <<store, now, timers, fitInfo, batch>>

NextPValue == pValues

SpecPValue == InitPValue /\ [][NextPValue]_vars

\* C26: at degrees of freedom above zero every p-value lies in [0,1], and
\* of two t-values the one with the larger |t| never has the larger p-value
PValueMonotone ==
  view.op = "pValues" =>
    /\ \A i \in 1..2 : Between(view.output[i], Zero, One)
    /\ \A i, j \in 1..2 :
         Le(MathAbs(view.input.tValues[i]), MathAbs(view.input.tValues[j]))
           => Le(view.output[j], view.output[i])

\* ------------------------------------------------------------------------
\* SpecNormality: the normality check on given residuals
\* ------------------------------------------------------------------------
\* a double kept to two decimals, rounded down: the precision the long
\* products of the normality test are carried with
Rounded(a) ==
  IF a[2] <= 100 THEN a
  ELSE Norm((a[1] \div a[2]) * 100 + ((a[1] % a[2]) * 100) \div a[2], 100)

\* the table `coefficients` of performShapiroWilkTest, in ten-thousandths
CoefficientTable(n) ==
  CASE n = 3 -> <<7071>>
    [] n = 4 -> <<6872, 1677>>
    [] n = 5 -> <<6646, 2413>>
    [] n = 6 -> <<6431, 2806, 875>>
    [] n = 7 -> <<6233, 3031, 1401>>
    [] n = 8 -> <<6052, 3164, 1743, 561>>
    [] n = 9 -> <<5888, 3244, 1976, 947>>
    [] n = 10 -> <<5739, 3291, 2141, 1224, 399>>
    [] n = 11 -> <<5601, 3315, 2260, 1429, 695>>
    [] n = 12 -> <<5475, 3325, 2347, 1586, 922, 303>>
    [] n = 13 -> <<5359, 3325, 2412, 1707, 1099, 539>>
    [] n = 14 -> <<5251, 3318, 2460, 1802, 1240, 727, 240>>
    [] n = 15 -> <<5150, 3306, 2495, 1878, 1353, 880, 433>>
    [] n = 20 -> <<4734, 3211, 2565, 2085, 1686, 1334, 1013, 711, 422, 140>>
    [] n = 25 -> <<4407, 3126, 2574, 2201, 1880, 1598, 1346, 1119, 910, 719,
                   540, 371, 209, 53>>
    [] n = 30 -> <<4152, 3051, 2556, 2274, 2000, 1750, 1520, 1308, 1112, 930,
                   761, 603, 455, 317, 187, 63>>
    [] n = 35 -> <<3946, 2987, 2528, 2319, 2082, 1860, 1654, 1463, 1286, 1122,
                   970, 829, 698, 577, 465, 361, 265, 176, 94, 19>>
    [] n = 40 -> <<3774, 2931, 2499, 2345, 2141, 1946, 1761, 1586, 1421, 1265,
                   1118, 980, 850, 728, 614, 508, 409, 317, 232, 153, 80, 13>>
    [] n = 45 -> <<3626, 2882, 2473, 2361, 2187, 2014, 1849, 1692, 1543, 1402,
                   1268, 1142, 1023, 911, 806, 707, 614, 527, 446, 370, 299,
                   233, 171, 113, 59, 8>>
    [] n = 50 -> <<3497, 2839, 2449, 2370, 2222, 2068, 1921, 1780, 1646, 1518,
                   1397, 1282, 1173, 1070, 972, 880, 793, 711, 634, 561, 493,
                   429, 369, 313, 260, 211, 165, 122, 82, 45, 11>>

\* the sample sizes `coefficients` has an entry for
TableSizes == (3..15) \cup {20, 25, 30, 35, 40, 45, 50}

\* coefs for a sample size of the table (the approximation used for the
\* other sizes is not modelled)
Coefs(n) ==
  Tup([i \in 1..Len(CoefficientTable(n)) |-> Norm(CoefficientTable(n)[i], 10000)])

\* the pairs <<i, j>>, j = n - 1 - i, of the iterations of the W loop that
\* add to the numerator: those with i # j (indices from 0, as in the code)
NumeratorPairs(n, length) ==
  SelectSeq(Tup([k \in 1..length |-> <<k - 1, n - k>>]), LAMBDA pair : pair[1] # pair[2])

\* the sum of values[lo..hi]; the halves are added up separately, which in
\* exact arithmetic is the sum taken from left to right
RECURSIVE Total(_, _, _)
Total(values, lo, hi) ==
  IF lo > hi THEN Zero
  ELSE IF lo = hi THEN values[lo]
  ELSE Add(Total(values, lo, (lo + hi) \div 2), Total(values, (lo + hi) \div 2 + 1, hi))

\* coefs[i] * (sortedData[j] - sortedData[i]) for each of these pairs
NumeratorTerms(pairs, coefs, sortedData) ==
  Tup([k \in 1..Len(pairs) |->
         Mul(coefs[pairs[k][1] + 1],
             Sub(sortedData[pairs[k][2] + 1], sortedData[pairs[k][1] + 1]))])

\* (sortedData[i] - mean)^2 for the first `length` values
SquaredDeviations(sortedData, mean, length) ==
  Tup([i \in 1..length |->
         Mul(Sub(sortedData[i], mean), Sub(sortedData[i], mean))])

\* Math.pow(numerator / (Math.sqrt(variance) * denominator), 2)
WStatistic(numerator, variance, denominator) ==
  Mul(Rounded(Div(numerator, Mul(MathSqrt(variance), denominator))),
      Rounded(Div(numerator, Mul(MathSqrt(variance), denominator))))

\* criticalValues[n] for n <= 11, in thousandths: alpha 0.005, 0.025, 0.05
CriticalValues(n) ==
  CASE n = 3 -> <<767, 789, 810>>
    [] n = 4 -> <<748, 792, 825>>
    [] n = 5 -> <<762, 806, 841>>
    [] n = 6 -> <<788, 826, 860>>
    [] n = 7 -> <<803, 838, 869>>
    [] n = 8 -> <<818, 851, 879>>
    [] n = 9 -> <<829, 859, 885>>
    [] n = 10 -> <<842, 869, 892>>
    [] n = 11 -> <<850, 876, 897>>

SmallSamplePValue(wStatistic, critical) ==
  IF Le(Norm(critical[3], 1000), wStatistic) THEN <<1, 20>>
  ELSE IF Le(Norm(critical[2], 1000), wStatistic) THEN <<1, 40>>
  ELSE IF Le(Norm(critical[1], 1000), wStatistic) THEN <<1, 200>>
  ELSE <<1, 1000>>

\* 2 * (1 - 0.5 * (1 + sign(z) * sqrt(1 - exp(-2 * z * z / PI))))
NormalTail(z) ==
  Mul(Two, Sub(One, Mul(Half, Add(One, Mul(MathSign(z),
    MathSqrt(Rounded(Sub(One,
      ExpNeg(Rounded(Div(Mul(Two, Mul(z, z)), MathPI)))))))))))

\* the normal approximation for n > 11: mu = 0.5 + 0.5 / sqrt(n),
\* sigma = 0.5 / sqrt(n), z = (W - mu) / sigma
LargeSamplePValue(wStatistic, n) ==
  NormalTail(Rounded(Div(Sub(wStatistic, Add(Half, Div(Half, MathSqrt(Q(n))))),
                         Div(Half, MathSqrt(Q(n))))))

ShapiroWilkResult(wStatistic, pValue) ==
  [statistic |-> wStatistic, pValue |-> pValue,
   interpretation |-> IF Lt(<<1, 20>>, pValue) THEN "normality satisfied"
                      ELSE "normality violated"]

ShapiroWilkW(wStatistic, n) ==
  ShapiroWilkResult(wStatistic,
    IF n <= 11 THEN SmallSamplePValue(wStatistic, CriticalValues(n))
    ELSE LargeSamplePValue(wStatistic, n))

ShapiroWilkSums(numeratorTerms, variance, deviations, n) ==
  ShapiroWilkW(WStatistic(Total(numeratorTerms, 1, Len(numeratorTerms)), variance,
                          Total(deviations, 1, Len(deviations))),
               n)

ShapiroWilkSorted(sortedData, mean, variance, coefs) ==
  IF variance = Zero
  THEN [statistic |-> One, pValue |-> One, interpretation |-> "normality satisfied"]
  ELSE ShapiroWilkSums(
         NumeratorTerms(NumeratorPairs(Len(sortedData), Len(coefs)), coefs, sortedData),
         variance,
         SquaredDeviations(sortedData, mean, Len(coefs)),
         Len(sortedData))

ShapiroWilkMean(sortedData, mean) ==
  ShapiroWilkSorted(sortedData, mean,
    Div(Total(SquaredDeviations(sortedData, mean, Len(sortedData)), 1, Len(sortedData)),
        Q(Len(sortedData) - 1)),
    Coefs(Len(sortedData)))

\* the place of data[i] in ascending order, equal values in input order
PlaceOf(data, i) ==
  1 + Cardinality({j \in 1..Len(data) :
                     Lt(data[j], data[i]) \/ (data[j] = data[i] /\ j < i)})

\* [...data].sort((a, b) => a - b)
SortedData(data) ==
  Tup([k \in 1..Len(data) |-> data[CHOOSE i \in 1..Len(data) : PlaceOf(data, i) = k]])

performShapiroWilkTest(data) ==
  IF Len(data) < 3 \/ Len(data) > 5000
  THEN [statistic |-> Zero, pValue |-> One, interpretation |-> "unsuitable sample size"]
  ELSE ShapiroWilkMean(SortedData(data),
                       Div(Total(SortedData(data), 1, Len(data)), Q(Len(data))))

\* the normality entry of assessModelAssumptions
NormalityOf(normalityTest) ==
  [score |-> normalityTest.pValue,
   status |-> IF Lt(<<1, 20>>, normalityTest.pValue) THEN "good" ELSE "warning",
   message |-> normalityTest.interpretation,
   statistic |-> normalityTest.statistic,
   pValue |-> normalityTest.pValue]

\* samples with mean zero (as the residuals of a fit with an intercept), of
\* every size of the table and of size 2
SampleSizes == {2} \cup TableSizes

Centred(n, i) ==
  IF n % 2 = 1 THEN i - (n + 1) \div 2
  ELSE IF i <= n \div 2 THEN i - (n \div 2) - 1 ELSE i - (n \div 2)

Sample(shape, n) ==
  Tup([i \in 1..n |->
    CASE shape = "rising" -> Q(Centred(n, i))
      [] shape = "falling" -> Q(-Centred(n, i))
      [] shape = "wide" -> Q(2 * Centred(n, i))
      [] shape = "signs" -> Q(Sign(Centred(n, i)))
      [] shape = "last" -> IF i = n THEN Q(n - 1) ELSE Q(-1)
      [] shape = "first" -> IF i = 1 THEN Q(1 - n) ELSE One
      [] shape = "equal" -> Zero])

Shapes == {"rising", "falling", "wide", "signs", "last", "first", "equal"}

InitNormality ==
  /\ store = InitialState
  /\ now = StartTime
  /\ timers = <<>>
  /\ fitInfo = NoFit
  /\ batch = NoBatch
  /\ \E shape \in Shapes, n \in SampleSizes :
       view = [op |-> "residuals", input |-> Sample(shape, n), output |-> <<>>]

\* the normality part of assessModelAssumptions
assessNormality ==
  /\ view.op = "residuals"
  /\ view' = [op |-> "normality", input |-> view.input,
              output |-> NormalityOf(performShapiroWilkTest(view.input))]
  /\ UNCHANGED <<store, now, timers, fitInfo, batch>>

NextNormality == assessNormality

SpecNormality == InitNormality /\ [][NextNormality]_vars

NormalityAssessed == view.op = "normality"

\* the sample has values that differ: its variance is not zero
Varied == \E i, j \in 1..Len(view.input) : view.input[i] # view.input[j]

\* C27: a sample of 3 to 11 residuals with non-zero variance is classified
\* good exactly when its W statistic is at or above the tabulated 0.05
\* critical value of its size, and warning otherwise
SmallSampleCanBeGood ==
  (NormalityAssessed /\ Len(view.input) \in 3..11 /\ Varied) =>
    (view.output.status = "good"
       <=> Le(Norm(CriticalValues(Len(view.input))[3], 1000), view.output.statistic))

\* C28: the status of the independence check and its message agree: good
\* goes with "no autocorrelation" and warning with one of the two
\* autocorrelation messages, for every residual vector
StatusMatchesMessage ==
  Assessed =>
    /\ view.output.status = "good" <=> view.output.message = "no autocorrelation"
    /\ view.output.status = "warning"
         <=> view.output.message \in {"positive autocorrelation", "negative autocorrelation"}

\* C29: for every sample size of the coefficient table the entry holds at
\* most floor(n/2) coefficients, so every pair <<i, n-1-i>> that adds to the
\* numerator of W has i < n-1-i
CoefficientsWithinHalf ==
  (NormalityAssessed /\ Len(view.input) \in TableSizes) =>
    /\ Len(Coefs(Len(view.input))) <= Len(view.input) \div 2
    /\ \A k \in 1..Len(NumeratorPairs(Len(view.input), Len(Coefs(Len(view.input))))) :
         NumeratorPairs(Len(view.input), Len(Coefs(Len(view.input))))[k][1]
           < NumeratorPairs(Len(view.input), Len(Coefs(Len(view.input))))[k][2]

\* ------------------------------------------------------------------------
\* SpecOptions: the preprocessing switches, between loads and fits
\* ------------------------------------------------------------------------
OptionsData == {Dataset(<<"a", "c", "d">>, MaxRows), Dataset(<<"e", "m">>, MaxRows)}

\* onCheckedChange of a switch, with the call kept for reference
onCheckedChange(options) ==
  /\ setProcessingOptions(options)
  /\ view' = [op |-> "setProcessingOptions", input |-> options, output |-> <<>>]

NextOptions ==
  \/ \E options \in FitOptions : onCheckedChange(options)
  \/ \E data \in OptionsData : LoadData(data)
  \/ runRegressionImmediate("direct") /\ view' = NoView
       /\ UNCHANGED <<now, timers, batch>>

SpecOptions == Init /\ [][NextOptions]_vars

ProcessingFlags == {"removeOutliers", "standardize", "normalize"}

\* C30: setProcessingOptions gives the flags named in its argument their
\* new values and leaves every other field of the store as it was: the
\* other flags, parsedData, headers, the selection and regressionResult;
\* the rows are preprocessed only by the next setParsedData, with the flags
\* of that moment
OptionsOnlySetFlags ==
  [][/\ view'.op = "setProcessingOptions" =>
          /\ \A flag \in ProcessingFlags :
               store'[flag] = IF flag \in DOMAIN view'.input
                              THEN view'.input[flag] ELSE store[flag]
          /\ \A field \in (DOMAIN store) \ ProcessingFlags : store'[field] = store[field]
     /\ view'.op = "setParsedData" =>
          /\ view'.input.standardize = store.standardize
          /\ store'.parsedData
               = Preprocess(store, view'.input.data, Keys(view'.input.data[1]))]_vars

\* standardize was switched on over rows loaded and fitted without it, and
\* the rows are not the standardized ones
SwitchedAfterFit ==
  /\ view.op = "setProcessingOptions"
  /\ view.input = [standardize |-> TRUE]
  /\ store.standardize
  /\ store.regressionResult # NoResult
  /\ store.parsedData # <<>>
  /\ store.parsedData # Preprocess(store, store.parsedData, store.headers)

====
